---- MODULE Spec2Model ----
(***************************************************************************)
(* Block-Tac-Toe (src/ttt.py): an N x M board with random obstacles, two   *)
(* players, win_len marks in a line win.  The module models the Board      *)
(* class (grid, legal-move cache, place_mark, check_winner, reset), the    *)
(* HumanPlayer pixel-to-cell conversion and the event handler of Game.run. *)
(*                                                                         *)
(* The specifications share the variables:                                 *)
(*   Spec         the game: events of Game.run (click, key, quit)          *)
(*   FairSpec     Spec, with players who keep clicking open cells          *)
(*   SpecBoard    the Board API called directly: place_mark with any       *)
(*                coordinate and symbol, reset                             *)
(*   SpecSampler  Board.__init__ / reset step by step: one action per      *)
(*                iteration of the loop of _place_obstacles                *)
(*   FairSpecSampler  SpecSampler with a fair random draw                  *)
(*   SpecPixels   HumanPlayer.make_move called with every pixel            *)
(* Python's None/True/False are the strings "None"/"True"/"False".         *)
(***************************************************************************)
EXTENDS Integers, FiniteSets, Sequences, TLC

\* ---------------------------------------------------------------- bounds
\* Boards of at most MaxCells cells (rows * cols <= MaxCells) are modelled.
MaxCells == 6
\* win_len ranges over 1..MaxWinLen.
MaxWinLen == 3

\* ------------------------------------------------------ program constants
cell_size == 80
margin == 5
\* height of the message strip below the grid (height = ... + margin + 60)
msg_strip == 60

Symbols == {"X", "O"}
\* self._players = [HumanPlayer('X'), HumanPlayer('O')], indexed by _turn
players == [t \in {0, 1} |-> IF t = 0 THEN "X" ELSE "O"]

VARIABLES
    rows, cols, win_len, num_obstacles,   \* Board configuration
    cells,                                \* Board._cells: (i, j) -> '.', '#', 'X', 'O'
    legal,                                \* Board._legal: set of (i, j)
    turn,                                 \* Game._turn
    game_over,                            \* Game._game_over
    winner,                               \* Game._winner
    moved,                                \* value returned by the last place_mark / make_move
    sym,                                  \* local sym of Game.run (symbol of the last successful move)
    event,                                \* the event the loop of Game.run processed last
    placed,                               \* local placed of Board._place_obstacles
    pc                                    \* "place": inside _init_board; "done": it has returned

vars == <<rows, cols, win_len, num_obstacles, cells, legal,
          turn, game_over, winner, moved, sym, event, placed, pc>>

boardVars == <<cells, legal>>
configVars == <<rows, cols, win_len, num_obstacles>>
gameVars == <<turn, game_over, winner>>
samplerVars == <<placed, pc>>

\* ------------------------------------------------------------------ Board
\* The coordinates of an r x c grid: range(rows) x range(cols).
Pos(r, c) == (0 .. r - 1) \X (0 .. c - 1)

InGrid(r, c, x, y) == 0 <= x /\ x < r /\ 0 <= y /\ y < c

\* _place_obstacles: the loop draws (i, j) until num_obstacles empty cells
\* have been turned into '#'.  A draw that hits '#' changes nothing and
\* every coordinate can be drawn, so the grids the loop can end with are
\* those whose obstacles are any n distinct coordinates.
place_obstacles(r, c, n) ==
    { [p \in Pos(r, c) |-> IF p \in S THEN "#" ELSE "."] :
        S \in { T \in SUBSET Pos(r, c) : Cardinality(T) = n } }

\* (variant: the marks of the previous cells survive the re-initialisation)
init_board_stale(old, r, c, n) ==
    { [cells |-> [p \in Pos(r, c) |->
                    IF g[p] = "#" THEN "#"
                    ELSE IF p \in DOMAIN old /\ old[p] \in {"X", "O"} THEN old[p]
                    ELSE "."],
       legal |-> {p \in Pos(r, c) : g[p] = "."}] :
        g \in place_obstacles(r, c, n) }

\* _init_board: fresh cells, obstacles, then the legal cache rebuilt from
\* the cells that are still '.'.  The previous cells are discarded.
init_board(old, r, c, n) ==
    { [cells |-> g, legal |-> {p \in Pos(r, c) : g[p] = "."}] :
        g \in place_obstacles(r, c, n) }

reset(old, r, c, n) == init_board(old, r, c, n)

is_legal_move(lg, i, j) == <<i, j>> \in lg

\* (variant: the mark is written but the coordinate stays in the cache)
place_mark_keep_legal(cs, lg, i, j, s) ==
    IF <<i, j>> \in lg
    THEN [cells |-> [cs EXCEPT ![<<i, j>>] = s], legal |-> lg, ret |-> "True"]
    ELSE [cells |-> cs, legal |-> lg, ret |-> "False"]

\* (variant: the test reads the grid and accepts every cell but an obstacle)
place_mark_overwrite(cs, lg, i, j, s) ==
    IF <<i, j>> \in DOMAIN cs /\ cs[<<i, j>>] # "#"
    THEN [cells |-> [cs EXCEPT ![<<i, j>>] = s],
          legal |-> lg \ {<<i, j>>},
          ret   |-> "True"]
    ELSE [cells |-> cs, legal |-> lg, ret |-> "False"]

\* (variant: the test indexes the grid, where Python counts a negative
\* index from the end)
place_mark_negative_index(cs, lg, i, j, s) ==
    LET nr == Cardinality({p[1] : p \in DOMAIN cs})
        nc == Cardinality({p[2] : p \in DOMAIN cs})
        ii == IF i < 0 THEN i + nr ELSE i
        jj == IF j < 0 THEN j + nc ELSE j
    IN  IF <<ii, jj>> \in DOMAIN cs /\ cs[<<ii, jj>>] = "."
        THEN [cells |-> [cs EXCEPT ![<<ii, jj>>] = s],
              legal |-> lg \ {<<ii, jj>>},
              ret   |-> "True"]
        ELSE [cells |-> cs, legal |-> lg, ret |-> "False"]

place_mark(cs, lg, i, j, s) ==
    IF <<i, j>> \in lg
    THEN [cells |-> [cs EXCEPT ![<<i, j>>] = s],
          legal |-> lg \ {<<i, j>>},
          ret   |-> "True"]
    ELSE [cells |-> cs, legal |-> lg, ret |-> "False"]

\* (variant: the board is never reported full)
is_full_never(lg) == FALSE

is_full(lg) == lg = {}

dirs == {<<1, 0>>, <<0, 1>>, <<1, 1>>, <<1, -1>>}

\* The while loop of check_winner: from (x, y) in direction (di, dj) with
\* count cells counted so far.  count is compared with win_len only after
\* an increment.
RECURSIVE run_loop(_, _, _, _, _, _, _, _, _, _)
run_loop(cs, r, c, w, s, x, y, di, dj, count) ==
    IF InGrid(r, c, x, y) /\ cs[<<x, y>>] = s
    THEN IF count + 1 >= w
         THEN TRUE
         ELSE run_loop(cs, r, c, w, s, x + di, y + dj, di, dj, count + 1)
    ELSE FALSE

\* (variant: the origin cell is counted twice, count starts at 2)
check_winner_count2(cs, r, c, w, s) ==
    \E p \in Pos(r, c) :
        /\ cs[p] = s
        /\ \E d \in dirs :
              run_loop(cs, r, c, w, s, p[1] + d[1], p[2] + d[2], d[1], d[2], 2)

check_winner(cs, r, c, w, s) ==
    \E p \in Pos(r, c) :
        /\ cs[p] = s
        /\ \E d \in dirs :
              run_loop(cs, r, c, w, s, p[1] + d[1], p[2] + d[2], d[1], d[2], 1)

\* ----------------------------------------------------------------- Player
\* (variant: the margin is not subtracted)
cell_index_no_margin(coord, csz, mg) == coord \div (csz + mg)

\* HumanPlayer.make_move: floor division of the pixel by the cell pitch.
cell_index(coord, csz, mg) == (coord - mg) \div (csz + mg)

make_move(cs, lg, pos, csz, mg, s) ==
    LET j == cell_index(pos[1], csz, mg)
        i == cell_index(pos[2], csz, mg)
    IN  place_mark(cs, lg, i, j, s)

\* ------------------------------------------------------------------- Game
\* Window size set in Game.__init__.
width(c) == c * (cell_size + margin) + margin
height(r) == r * (cell_size + margin) + margin + msg_strip

\* First pixel of the rectangle Board.draw gives cell k of a row or column.
cell_origin(k) == margin + k * (cell_size + margin)

\* Positions a click is drawn from, all inside the window: the first pixel
\* of every cell, the last pixel of the last cell's row and column band,
\* and clicks in the leading margins and in the message strip below.
Clicks(r, c) ==
    { <<cell_origin(p[2]), cell_origin(p[1])>> : p \in Pos(r, c) } \cup
    { <<0, 0>>,
      <<0, cell_origin(0)>>,
      <<cell_origin(0), 0>>,
      <<width(c) - 1, cell_origin(r) - 1>>,
      <<cell_origin(0), cell_origin(r)>>,
      <<width(c) - 1, height(r) - 1>> }

Ev(type, key) == [type |-> type, key |-> key]

\* Configurations: 0 <= num_obstacles < rows * cols, win_len >= 1.
Configs ==
    { cfg \in [rows : 1 .. MaxCells, cols : 1 .. MaxCells,
               win_len : 1 .. MaxWinLen, num_obstacles : 0 .. MaxCells - 1] :
        /\ cfg.rows * cfg.cols <= MaxCells
        /\ cfg.num_obstacles < cfg.rows * cfg.cols }

\* State after Game.__init__ (Board.__init__ runs _init_board).
Init ==
    \E cfg \in Configs :
        /\ rows = cfg.rows
        /\ cols = cfg.cols
        /\ win_len = cfg.win_len
        /\ num_obstacles = cfg.num_obstacles
        /\ \E b \in init_board([p \in {} |-> "."], cfg.rows, cfg.cols, cfg.num_obstacles) :
              cells = b.cells /\ legal = b.legal
        /\ turn = 0
        /\ game_over = FALSE
        /\ winner = "None"
        /\ moved = "None"
        /\ sym = "None"
        /\ event = Ev("None", "None")
        /\ placed = cfg.num_obstacles
        /\ pc = "done"

Running == event.type # "QUIT"

\* elif event.type == pygame.KEYDOWN and self._game_over: if event.key == pygame.K_r
restart_branch_any(go, key) == key = "K_r"
restart_branch(go, key) == go /\ key = "K_r"

\* elif event.type == pygame.MOUSEBUTTONDOWN and not self._game_over
move_branch_always(go) == TRUE
move_branch(go) == ~go

\* self._turn = 1 - self._turn
flip_stay(t) == t
flip(t) == 1 - t

\* event.type == pygame.QUIT: the process exits.
Quit ==
    /\ Running
    /\ event' = Ev("QUIT", "None")
    /\ UNCHANGED <<configVars, boardVars, gameVars, moved, sym, samplerVars>>

\* event.type == pygame.KEYDOWN; the branch is taken only when _game_over,
\* and only K_r restarts.
KeyDown(key) ==
    /\ Running
    /\ event' = Ev("KEYDOWN", key)
    /\ IF restart_branch(game_over, key)
       THEN /\ \E b \in reset(cells, rows, cols, num_obstacles) :
                  cells' = b.cells /\ legal' = b.legal
            /\ turn' = 0
            /\ game_over' = FALSE
            /\ winner' = "None"
       ELSE UNCHANGED <<boardVars, gameVars>>
    /\ UNCHANGED <<configVars, moved, sym, samplerVars>>

\* event.type == pygame.MOUSEBUTTONDOWN; the branch is taken only when
\* not _game_over.
MouseButtonDown(pos) ==
    /\ Running
    /\ event' = Ev("MOUSEBUTTONDOWN", "None")
    /\ IF move_branch(game_over)
       THEN LET player == players[turn]
                res == make_move(cells, legal, pos, cell_size, margin, player)
            IN  /\ moved' = res.ret
                /\ cells' = res.cells
                /\ legal' = res.legal
                /\ IF res.ret = "True"
                   THEN /\ sym' = player
                        /\ IF check_winner(res.cells, rows, cols, win_len, player)
                           THEN /\ game_over' = TRUE
                                /\ winner' = player
                                /\ turn' = turn
                           ELSE IF is_full(res.legal)
                           THEN /\ game_over' = TRUE
                                /\ winner' = "None"
                                /\ turn' = turn
                           ELSE /\ turn' = flip(turn)
                                /\ UNCHANGED <<game_over, winner>>
                   ELSE UNCHANGED <<sym, gameVars>>
       ELSE UNCHANGED <<boardVars, gameVars, moved, sym>>
    /\ UNCHANGED <<configVars, samplerVars>>

Next ==
    \/ Quit
    \/ \E key \in {"K_r", "K_other"} : KeyDown(key)
    \/ \E pos \in Clicks(rows, cols) : MouseButtonDown(pos)

Spec == Init /\ [][Next]_vars

\* A click of the active player that lands on an open cell while the game
\* is in progress.
SuccessfulClick ==
    \E pos \in Clicks(rows, cols) :
        /\ ~game_over
        /\ MouseButtonDown(pos)
        /\ moved' = "True"

\* The players keep clicking: while a click on an open cell is possible,
\* one eventually happens.
FairSpec == Spec /\ WF_vars(SuccessfulClick)

\* ------------------------------------------------- the Board API, directly
\* board.place_mark(i, j, s) for any coordinate around the grid.
BoardPlaceMark(i, j, s) ==
    LET res == place_mark(cells, legal, i, j, s)
    IN  /\ cells' = res.cells
        /\ legal' = res.legal
        /\ moved' = res.ret
        /\ UNCHANGED <<configVars, gameVars, sym, event, samplerVars>>

\* board.reset(); returns None.
BoardReset ==
    /\ \E b \in reset(cells, rows, cols, num_obstacles) :
          cells' = b.cells /\ legal' = b.legal
    /\ moved' = "None"
    /\ UNCHANGED <<configVars, gameVars, sym, event, samplerVars>>

\* Coordinates the calls are made with: every cell of the grid, and
\* coordinates outside it (negative, and past the last row or column).
CallCoords(r, c) == Pos(r, c) \cup {<<-1, -1>>, <<-1, 0>>, <<0, c>>, <<r, c>>}

NextBoard ==
    \/ \E p \in CallCoords(rows, cols), s \in Symbols : BoardPlaceMark(p[1], p[2], s)
    \/ BoardReset

SpecBoard == Init /\ [][NextBoard]_vars

\* --------------------------------- HumanPlayer.make_move on every pixel
\* The rectangle Board.draw paints for cell (i, j).
draw_rect(i, j) ==
    [left |-> cell_origin(j), top |-> cell_origin(i),
     width |-> cell_size, height |-> cell_size]

\* A pixel is inside a pygame.Rect: left <= x < left + width, likewise y.
InRect(x, y, rect) ==
    /\ rect.left <= x /\ x < rect.left + rect.width
    /\ rect.top <= y /\ y < rect.top + rect.height

\* Pixels of the window: every x on the rows of pixels where a cell, the top
\* margin or the message strip begins, and every y on the columns of pixels
\* where a cell or the left margin begins (x and y are converted
\* independently of each other).
PixelClicks(r, c) ==
    ((0 .. width(c) - 1) \X ({0} \cup {cell_origin(i) : i \in 0 .. r})) \cup
    (({0} \cup {cell_origin(j) : j \in 0 .. c - 1}) \X (0 .. height(r) - 1))

\* A click event that carries its position (event.pos).
EvAt(pos) == [type |-> "MOUSEBUTTONDOWN", key |-> "None", pos |-> pos]

\* A fresh board without obstacles: the cell a click is converted to is the
\* cell that receives the mark.
InitPixels == Init /\ num_obstacles = 0

\* player.make_move(board, event.pos, cell_size, margin) for the first
\* click on the fresh board.
PixelClick(pos) ==
    /\ event.type = "None"
    /\ LET res == make_move(cells, legal, pos, cell_size, margin, players[turn])
       IN  /\ cells' = res.cells
           /\ legal' = res.legal
           /\ moved' = res.ret
    /\ event' = EvAt(pos)
    /\ UNCHANGED <<configVars, gameVars, sym, samplerVars>>

NextPixels == \E pos \in PixelClicks(rows, cols) : PixelClick(pos)

SpecPixels == InitPixels /\ [][NextPixels]_vars

\* ------------------------------------- _init_board, one loop iteration a step
\* (variant: placed is incremented on every draw, also on a filled cell)
place_step_count_all(cs, pl, i, j) ==
    IF cs[<<i, j>>] = "."
    THEN [cells |-> [cs EXCEPT ![<<i, j>>] = "#"], placed |-> pl + 1]
    ELSE [cells |-> cs, placed |-> pl + 1]

\* The body of the while loop of _place_obstacles for the draw (i, j).
place_step(cs, pl, i, j) ==
    IF cs[<<i, j>>] = "."
    THEN [cells |-> [cs EXCEPT ![<<i, j>>] = "#"], placed |-> pl + 1]
    ELSE [cells |-> cs, placed |-> pl]

\* Arguments Board.__init__ accepts: nothing is validated, so win_len = 0 and
\* num_obstacles >= rows * cols are constructed like any other.
BoardArgs ==
    { cfg \in [rows : 1 .. MaxCells, cols : 1 .. MaxCells,
               win_len : 0 .. MaxWinLen, num_obstacles : 0 .. MaxCells + 1] :
        /\ cfg.rows * cfg.cols <= MaxCells
        /\ cfg.num_obstacles <= cfg.rows * cfg.cols + 1 }

\* Board.__init__ has stored the arguments and _init_board has created the
\* empty cells; _legal does not exist yet.
InitSampler ==
    \E cfg \in BoardArgs :
        /\ rows = cfg.rows
        /\ cols = cfg.cols
        /\ win_len = cfg.win_len
        /\ num_obstacles = cfg.num_obstacles
        /\ cells = [p \in Pos(cfg.rows, cfg.cols) |-> "."]
        /\ legal = {}
        /\ placed = 0
        /\ pc = "place"
        /\ turn = 0
        /\ game_over = FALSE
        /\ winner = "None"
        /\ moved = "None"
        /\ sym = "None"
        /\ event = Ev("None", "None")

\* while placed < self._num_obstacles: one draw of random.randrange.
SamplerDraw(i, j) ==
    /\ pc = "place"
    /\ placed < num_obstacles
    /\ LET res == place_step(cells, placed, i, j)
       IN  cells' = res.cells /\ placed' = res.placed
    /\ UNCHANGED <<configVars, legal, gameVars, moved, sym, event, pc>>

SamplerDrawAny == \E p \in Pos(rows, cols) : SamplerDraw(p[1], p[2])

\* The loop has ended: _init_board builds the cache of legal moves.
SamplerFinish ==
    /\ pc = "place"
    /\ ~(placed < num_obstacles)
    /\ legal' = {p \in Pos(rows, cols) : cells[p] = "."}
    /\ pc' = "done"
    /\ UNCHANGED <<configVars, cells, placed, gameVars, moved, sym, event>>

\* reset(): _init_board runs again from fresh cells; _legal keeps its old
\* value until the loop has ended.
SamplerReset ==
    /\ pc = "done"
    /\ cells' = [p \in Pos(rows, cols) |-> "."]
    /\ placed' = 0
    /\ pc' = "place"
    /\ UNCHANGED <<configVars, legal, gameVars, moved, sym, event>>

NextSampler ==
    \/ SamplerDrawAny
    \/ SamplerFinish
    \/ SamplerReset

SpecSampler == InitSampler /\ [][NextSampler]_vars

\* A fair random draw: while an empty cell is left, a draw eventually hits
\* one; the statements after the loop are executed.
FairSpecSampler ==
    /\ SpecSampler
    /\ WF_vars(SamplerDrawAny)
    /\ WF_vars(SamplerFinish)

\* ======================================================================
\* Properties
\* ======================================================================
Marks(cs) == {p \in DOMAIN cs : cs[p] \in Symbols}
Obstacles(cs) == {p \in DOMAIN cs : cs[p] = "#"}
Open(cs) == {p \in DOMAIN cs : cs[p] = "."}

\* A winning line: w consecutive cells of the grid, along a row, a column
\* or one of the two diagonals, all holding s.
HasRun(cs, r, c, w, s) ==
    \E p \in Pos(r, c), d \in dirs :
        \A k \in 0 .. w - 1 :
            /\ InGrid(r, c, p[1] + k * d[1], p[2] + k * d[2])
            /\ cs[<<p[1] + k * d[1], p[2] + k * d[2]>>] = s

IsRestart(ev) == ev.type = "KEYDOWN" /\ ev.key = "K_r"
IsClick(ev) == ev.type = "MOUSEBUTTONDOWN"

\* C1: the game-over flag is true iff the symbol that moved last has a
\* winning line of at least win_len cells, or the board has no open cell
\* and no winner is recorded.
C1_TerminalIffWinOrFull ==
    game_over <=>
        \/ sym \in Symbols /\ HasRun(cells, rows, cols, win_len, sym)
        \/ Open(cells) = {} /\ winner = "None"

\* C2: every coordinate is in exactly one of open set / mark / obstacle, the
\* open set is the set of Empty cells, and its size is rows*cols minus the
\* obstacles minus the marks placed since the last reset.
C2_Partition ==
    /\ DOMAIN cells = Pos(rows, cols)
    /\ \A p \in Pos(rows, cols) :
          Cardinality({k \in {1, 2, 3} :
              \/ k = 1 /\ p \in legal
              \/ k = 2 /\ cells[p] \in Symbols
              \/ k = 3 /\ cells[p] = "#"}) = 1
    /\ legal = Open(cells)
    /\ Cardinality(Obstacles(cells)) = num_obstacles
    /\ Cardinality(legal) =
          rows * cols - num_obstacles - Cardinality(Marks(cells))

C2_Witness ==
    /\ moved = "True"
    /\ Cardinality(Marks(cells)) >= 2
    /\ Obstacles(cells) # {}
    /\ legal # {}

\* C3: check_winner(symbol) is true iff the grid holds a run of at least
\* win_len cells of that symbol along a row, a column or a diagonal, for
\* every grid content and every win_len >= 1.
C3_CheckWinnerIffRun ==
    \A s \in Symbols :
        check_winner(cells, rows, cols, win_len, s)
            <=> HasRun(cells, rows, cols, win_len, s)

\* C4: a successful move in progress ends the game with the mover as
\* winner if the mover now has a winning line, else ends it as a draw if
\* the board is full, else leaves the game in progress.
C4_MoveOutcome ==
    [][ (IsClick(event') /\ ~game_over /\ moved' = "True") =>
          IF HasRun(cells', rows, cols, win_len, players[turn])
          THEN game_over' /\ winner' = players[turn]
          ELSE IF Open(cells') = {}
          THEN game_over' /\ winner' = "None"
          ELSE ~game_over' ]_vars

\* C5: a successful move that does not end the game flips the active
\* player index; a failed move and a move that ends the game leave it.
C5_TurnAlternation ==
    [][ (IsClick(event') /\ ~game_over) =>
          /\ (moved' = "True" /\ ~game_over') => turn' = 1 - turn
          /\ (moved' = "True" /\ game_over') => turn' = turn
          /\ moved' = "False" => turn' = turn ]_vars

C5_Witness ==
    /\ IsClick(event)
    /\ moved = "True"
    /\ ~game_over
    /\ turn = 0
    /\ Cardinality(Marks(cells)) = 2

\* C6: place_mark on a marked cell, an obstacle or a coordinate outside the
\* grid (negative indices included) returns failure and changes neither
\* the grid nor the open set; is_legal_move is false there.
C6_IllegalPlaceFails ==
    \A i \in -1 .. rows, j \in -1 .. cols, s \in Symbols :
        (~InGrid(rows, cols, i, j) \/ cells[<<i, j>>] # ".") =>
            /\ place_mark(cells, legal, i, j, s)
                  = [cells |-> cells, legal |-> legal, ret |-> "False"]
            /\ ~is_legal_move(legal, i, j)

C6_Witness ==
    /\ moved = "False"
    /\ Marks(cells) # {}
    /\ Obstacles(cells) # {}

\* C7: place_mark on an open cell succeeds, and a coordinate once marked
\* keeps its mark and is never legal again until the board is reset: in
\* every state a call on an open cell would succeed and a call on a marked
\* cell would fail (the cell is not legal), and every step of the Board API
\* but reset (moved' is the value the call returned, "None" for reset)
\* keeps every mark in place.
C7_MarkedOnceUntilReset ==
    /\ [](\A p \in Pos(rows, cols), s \in Symbols :
            /\ cells[p] = "." =>
                  place_mark(cells, legal, p[1], p[2], s).ret = "True"
            /\ cells[p] \in Symbols =>
                  /\ ~is_legal_move(legal, p[1], p[2])
                  /\ place_mark(cells, legal, p[1], p[2], s).ret = "False")
    /\ [][ moved' # "None" =>
              \A p \in Pos(rows, cols) :
                  cells[p] \in Symbols => cells'[p] = cells[p] ]_vars

C7_Witness ==
    /\ moved = "True"
    /\ Cardinality(Marks(cells)) >= 2
    /\ legal # {}
    /\ Obstacles(cells) # {}

\* C8: once the game is over, every event but a restart leaves grid, open
\* set, active player index, game-over flag and winner unchanged.
C8_OverFrozen ==
    [][ (game_over /\ ~IsRestart(event')) =>
          UNCHANGED <<cells, legal, turn, game_over, winner>> ]_vars

C8_Witness ==
    /\ game_over
    /\ IsClick(event)
    /\ moved = "True"
    /\ winner \in Symbols
    /\ legal # {}

\* C9: a restart command while the game is in progress changes nothing.
C9_RestartIgnoredInProgress ==
    [][ (~game_over /\ IsRestart(event')) =>
          UNCHANGED <<configVars, cells, legal, turn, game_over, winner>> ]_vars

C9_Witness ==
    /\ ~game_over
    /\ IsRestart(event)
    /\ Marks(cells) # {}
    /\ turn = 1

\* C10: a restart while the game is over yields an in-progress game with
\* active index 0, no winner, no marks, exactly num_obstacles obstacles and
\* rows*cols - num_obstacles open cells.
C10_RestartFresh ==
    [][ (game_over /\ IsRestart(event')) =>
          /\ ~game_over'
          /\ turn' = 0
          /\ winner' = "None"
          /\ Marks(cells') = {}
          /\ Cardinality(Obstacles(cells')) = num_obstacles
          /\ legal' = Open(cells')
          /\ Cardinality(legal') = rows * cols - num_obstacles
          /\ UNCHANGED configVars ]_vars

C10_Witness ==
    /\ IsRestart(event)
    /\ ~game_over
    /\ Marks(cells) = {}
    /\ sym \in Symbols
    /\ Obstacles(cells) # {}

ValidObstacles == num_obstacles < rows * cols

\* C11: for every valid configuration, when initialization has ended
\* exactly num_obstacles cells are Obstacle (distinct coordinates), all
\* others are Empty, and the open set is the set of Empty cells, of size
\* rows*cols - num_obstacles, whatever coordinates were drawn.
C11_InitExactObstacles ==
    (pc = "done" /\ ValidObstacles) =>
        /\ DOMAIN cells = Pos(rows, cols)
        /\ Cardinality(Obstacles(cells)) = num_obstacles
        /\ \A p \in Pos(rows, cols) : cells[p] \in {"#", "."}
        /\ legal = Open(cells)
        /\ Cardinality(legal) = rows * cols - num_obstacles
        /\ cells \in place_obstacles(rows, cols, num_obstacles)

C11_Witness ==
    /\ pc = "done"
    /\ ValidObstacles
    /\ num_obstacles >= 2
    /\ Cardinality(legal) >= 2

\* C12: initialization with num_obstacles >= rows*cols or win_len < 1 fails
\* with a configuration error: it never completes with such a configuration.
C12_InvalidConfigRejected ==
    (num_obstacles >= rows * cols \/ win_len < 1) => pc # "done"

\* C20: for every valid configuration the loop of _place_obstacles ends:
\* the count of placed obstacles never exceeds num_obstacles (it is the
\* number of obstacles on the grid), a draw that hits a filled cell changes
\* nothing, and under a fair draw initialization eventually completes.
C20_SamplerTerminates ==
    /\ [](ValidObstacles =>
            /\ placed <= num_obstacles
            /\ placed = Cardinality(Obstacles(cells))
            /\ \A p \in Pos(rows, cols) :
                  cells[p] = "#" =>
                      place_step(cells, placed, p[1], p[2])
                          = [cells |-> cells, placed |-> placed])
    /\ ((ValidObstacles /\ pc = "place") ~> (pc = "done"))

C20_Witness ==
    /\ pc = "done"
    /\ placed = num_obstacles
    /\ num_obstacles = rows * cols - 1
    /\ rows * cols >= 4

\* C13: a click in progress whose computed cell is illegal (marked,
\* obstacle or outside the grid: leading margins, message strip) is a no-op:
\* make_move returns failure with grid and open set unchanged, and the step
\* leaves active index, game-over flag and winner unchanged.
C13_IllegalClickNoOp ==
    /\ [](\A pos \in Clicks(rows, cols) :
            LET j == cell_index(pos[1], cell_size, margin)
                i == cell_index(pos[2], cell_size, margin)
            IN  (~InGrid(rows, cols, i, j) \/ cells[<<i, j>>] # ".") =>
                    make_move(cells, legal, pos, cell_size, margin, players[turn])
                        = [cells |-> cells, legal |-> legal, ret |-> "False"])
    /\ [][ (IsClick(event') /\ ~game_over /\ moved' = "False") =>
              UNCHANGED <<configVars, cells, legal, turn, game_over, winner>> ]_vars

C13_Witness ==
    /\ IsClick(event)
    /\ moved = "False"
    /\ ~game_over
    /\ Marks(cells) # {}
    /\ Obstacles(cells) # {}

MaxDim == IF rows >= cols THEN rows ELSE cols

\* C14: when win_len > max(rows, cols) nobody can win: check_winner is
\* false for both symbols in every reachable state, no winner is ever
\* recorded, and a game that is over is a draw on a full board.
C14_NoWinWhenTooLong ==
    win_len > MaxDim =>
        /\ \A s \in Symbols : ~check_winner(cells, rows, cols, win_len, s)
        /\ winner = "None"
        /\ game_over => (is_full(legal) /\ Open(cells) = {})

C14_Witness ==
    /\ win_len > MaxDim
    /\ game_over
    /\ rows = 2
    /\ cols = 2
    /\ num_obstacles = 0

\* C15: a successful place_mark changes exactly one cell, from Empty to
\* the symbol, and removes exactly that coordinate from the open set; no
\* step of the Board API but reset changes the obstacle layout or an
\* existing mark.
C15_PlaceMarkFrame ==
    [][ moved' # "None" =>
          /\ moved' = "True" =>
                \E p \in legal :
                    /\ cells[p] = "."
                    /\ cells'[p] \in Symbols
                    /\ cells' = [cells EXCEPT ![p] = cells'[p]]
                    /\ legal' = legal \ {p}
          /\ Obstacles(cells') = Obstacles(cells)
          /\ \A p \in Marks(cells) : cells'[p] = cells[p] ]_vars

C15_Witness ==
    /\ moved = "True"
    /\ Cardinality(Marks(cells)) >= 3
    /\ Obstacles(cells) # {}

CountOf(cs, s) == Cardinality({p \in DOMAIN cs : cs[p] = s})

\* C17: the number of X marks minus the number of O marks is 0 or 1; in
\* progress the active index is 0 exactly when the counts are equal and 1
\* exactly when X has one more mark.
C17_MarkBalance ==
    LET diff == CountOf(cells, "X") - CountOf(cells, "O")
    IN  /\ diff \in {0, 1}
        /\ ~game_over => /\ turn = 0 <=> diff = 0
                         /\ turn = 1 <=> diff = 1

C17_Witness ==
    /\ ~game_over
    /\ turn = 1
    /\ CountOf(cells, "X") = 2
    /\ CountOf(cells, "O") = 1

\* C18: in no reachable state do both symbols have a winning line.
C18_NoDoubleWin ==
    ~(/\ HasRun(cells, rows, cols, win_len, "X")
      /\ HasRun(cells, rows, cols, win_len, "O"))

\* C16: every game terminates: a successful move adds one mark and at most
\* rows*cols - num_obstacles marks fit between two restarts; if the players
\* keep clicking open cells, a game in progress eventually is over (unless
\* the process quits), that is, again and again the game is over or the
\* process has quit; from Over, a restart leads back to in progress.
C16_GameTerminates ==
    /\ [](Cardinality(Marks(cells)) <= rows * cols - num_obstacles)
    /\ [][ /\ (IsClick(event') /\ ~game_over /\ moved' = "True") =>
                Cardinality(Marks(cells')) = Cardinality(Marks(cells)) + 1
           /\ (game_over /\ IsRestart(event')) => ~game_over' ]_vars
    /\ []<>(game_over \/ ~Running)

C16_Witness ==
    /\ game_over
    /\ Cardinality(Marks(cells)) = rows * cols - num_obstacles
    /\ winner = "None"
    /\ rows * cols - num_obstacles >= 4

\* C19: the pixel-to-cell conversion inverts the drawing layout: a click on
\* any pixel inside the rectangle drawn for cell (i, j) marks exactly
\* (i, j); a click with x < margin, y < margin, or past the last cell's
\* band (cell plus the gap after it) to the right or below is converted to
\* an index outside the grid and places no mark.
C19_PixelMapping ==
    IsClick(event) =>
        LET x == event.pos[1]
            y == event.pos[2]
        IN  /\ \A p \in Pos(rows, cols) :
                  InRect(x, y, draw_rect(p[1], p[2])) =>
                      /\ moved = "True"
                      /\ Marks(cells) = {p}
                      /\ cell_index(y, cell_size, margin) = p[1]
                      /\ cell_index(x, cell_size, margin) = p[2]
            /\ (\/ x < margin
                \/ y < margin
                \/ x >= cell_origin(cols)
                \/ y >= cell_origin(rows)) =>
                      /\ moved = "False"
                      /\ Marks(cells) = {}
                      /\ ~InGrid(rows, cols, cell_index(y, cell_size, margin),
                                             cell_index(x, cell_size, margin))

C19_Witness ==
    /\ IsClick(event)
    /\ rows >= 2
    /\ cols >= 2
    /\ event.pos = <<cell_origin(cols - 1) + cell_size - 1, cell_origin(rows - 1)>>
    /\ Marks(cells) = {<<rows - 1, cols - 1>>}

====
